---- MODULE Spec2Model ----
(***************************************************************************)
(* A model of generate_tiles_multiprocess.py: the Web-Mercator projection  *)
(* (GoogleProjection), the tile enumeration and shutdown protocol of       *)
(* render_tiles, the worker loop RenderThread.loop, and the parts of       *)
(* __main__ that prepare the tile directory and the bounding box and that  *)
(* import the tiles into an MBTiles file.                                  *)
(*                                                                         *)
(* Units.  Geographic coordinates are integers in millidegrees.  The       *)
(* Mercator ordinate 0.5*log((1+f)/(1-f)) / (2*pi) is tabulated in units   *)
(* of 1/FracScale of the world size for the latitudes the model uses, and  *)
(* its inverse for the pixel rows those latitudes are projected to; both   *)
(* tables hold the values that the source's own expressions evaluate to.   *)
(***************************************************************************)
EXTENDS Integers, Sequences, FiniteSets, TLC

\* ------------------------------------------------------------------ bounds

\* The pipeline specifications take the arguments with
\* threads + max zoom <= MaxLoad (threads >= 1, max zoom >= 1).
MaxLoad == 3
\* Largest zoom level of the enumeration specification.
MaxEnumZoom == 2
\* Number of runs against one tile directory.
MaxRuns == 2
\* A further run is followed for runs that put at most this many requests.
MaxRerunLoad == 5
\* Largest zoom level at which single points are projected and taken back.
MaxProjZoom == 4
\* A KeyboardInterrupt that finds the mutex released in queue.join() is
\* followed where at most this many items are left unfinished.
MaxLeftAtJoin == 3

\* --------------------------------------------------------------- constants

\* MERC_MAX_LATITUDE, in millidegrees (85.0511287798... degrees).
MERC_MAX_LATITUDE == 85051

MaxLongitude == 180 * 1000

FracScale == 2 ^ 16

\* None: the shutdown sentinel, and the value of args.bbox without --bbox.
None == << >>

\* ------------------------------------------------------------- arithmetic

Min(a, b) == IF a < b THEN a ELSE b

Max(a, b) == IF a > b THEN a ELSE b

\* Python's round() of the rational n / d (d > 0): to nearest, ties to even.
Round(n, d) ==
    LET q == n \div d
        r == n - q * d
    IN  IF 2 * r < d THEN q
        ELSE IF 2 * r > d THEN q + 1
        ELSE IF q % 2 = 0 THEN q ELSE q + 1

\* Python's int() of the float a / b (b > 0): truncation toward zero.
IntDiv(a, b) == IF a >= 0 THEN a \div b ELSE -((-a) \div b)

\* -------------------------------------------------------------- projection

\* 0.5 * log((1 + f) / (1 - f)) / (2 * pi), f = sin(lat) clamped to
\* [-0.9999, 0.9999], in units of 1 / FracScale, as the source computes it,
\* for the latitudes from the equator northwards at which the row that
\* from_ll_to_pixel returns is the rounded quotient of these units at every
\* tile size and zoom level the model projects them at.  A latitude whose
\* sine is clamped (|lat| > 89.19 degrees) has the value of the clamp.
OrdinateNorth(lat) ==
    CASE lat = 0 -> 0
      [] lat = 1 -> 0
      [] lat = 500 -> 91
      [] lat = 1234 -> 225
      [] lat = 2500 -> 455
      [] lat = 5000 -> 911
      [] lat = 12345 -> 2265
      [] lat = 30000 -> 5729
      [] lat = 35690 -> 6963
      [] lat = 45000 -> 9193
      [] lat = 47500 -> 9851
      [] lat = 55000 -> 12039
      [] lat = 59913 -> 13705
      [] lat = 62500 -> 14683
      [] lat = 64147 -> 15351
      [] lat = 65000 -> 15713
      [] lat = 66513 -> 16384
      [] lat = 75000 -> 21149
      [] lat = 77500 -> 23069
      [] lat = 82500 -> 28423
      [] lat = 85000 -> 32661
      [] lat = 85051 -> 32768
      [] lat = 90000 -> 51648

\* The ordinate of a latitude: that of its mirror image north of the
\* equator, negated, for a latitude south of it.
MercatorOrdinate(lat) ==
    IF lat < 0 THEN -OrdinateNorth(-lat) ELSE OrdinateNorth(lat)

\* GoogleProjection.__init__: Ac[zoom], the world size in pixels at a zoom.
Ac(zoom, tile_size) == tile_size * (2 ^ zoom)

\* GoogleProjection.from_ll_to_pixel.  zc[zoom] = (c/2, c/2), Bc[zoom] =
\* c/360, Cc[zoom] = c/(2*pi); ll = <<lon, lat>> in millidegrees.  The x
\* quotient is reduced by 8 and the y quotient by 256 (c is a multiple of
\* 256) to stay within 32 bits.
from_ll_to_pixel(ll, zoom, tile_size) ==
    LET c == Ac(zoom, tile_size)
        e == Round((MaxLongitude + ll[1]) * (c \div 8), 45000)
        g == Round((c \div 256) * (FracScale \div 2 - MercatorOrdinate(ll[2])),
                   FracScale \div 256)
    IN  <<e, g>>

\* RAD_TO_DEG * (2 * atan(exp(g)) - 0.5 * pi) in millidegrees, as the
\* source computes it, for g = 2 * pi * m / FracScale: the latitude whose
\* Mercator ordinate is m, for the ordinates from the equator northwards of
\* the pixel rows that the latitudes of OrdinateNorth within the Mercator
\* limits are projected to.
LatitudeNorth(m) ==
    CASE m = 0 -> 0
      [] m = 64 -> 352
      [] m = 88 -> 483
      [] m = 92 -> 505
      [] m = 96 -> 527
      [] m = 128 -> 703
      [] m = 224 -> 1230
      [] m = 256 -> 1406
      [] m = 448 -> 2460
      [] m = 456 -> 2504
      [] m = 512 -> 2811
      [] m = 896 -> 4916
      [] m = 912 -> 5003
      [] m = 1024 -> 5616
      [] m = 2240 -> 12211
      [] m = 2264 -> 12340
      [] m = 2272 -> 12383
      [] m = 2304 -> 12555
      [] m = 5632 -> 29535
      [] m = 5728 -> 29993
      [] m = 5760 -> 30145
      [] m = 6912 -> 35461
      [] m = 6960 -> 35675
      [] m = 6964 -> 35693
      [] m = 6976 -> 35747
      [] m = 9184 -> 44965
      [] m = 9192 -> 44996
      [] m = 9200 -> 45027
      [] m = 9216 -> 45089
      [] m = 9728 -> 47040
      [] m = 9848 -> 47488
      [] m = 9852 -> 47502
      [] m = 9856 -> 47517
      [] m = 12032 -> 54978
      [] m = 12040 -> 55003
      [] m = 13696 -> 59889
      [] m = 13704 -> 59911
      [] m = 13712 -> 59933
      [] m = 13824 -> 60240
      [] m = 14592 -> 62268
      [] m = 14656 -> 62431
      [] m = 14680 -> 62492
      [] m = 14684 -> 62502
      [] m = 14688 -> 62512
      [] m = 14720 -> 62593
      [] m = 15344 -> 64130
      [] m = 15352 -> 64149
      [] m = 15360 -> 64168
      [] m = 15616 -> 64774
      [] m = 15712 -> 64998
      [] m = 15744 -> 65072
      [] m = 16384 -> 66513
      [] m = 21120 -> 74959
      [] m = 21148 -> 74999
      [] m = 21152 -> 75005
      [] m = 21248 -> 75141
      [] m = 23040 -> 77466
      [] m = 23068 -> 77499
      [] m = 23072 -> 77504
      [] m = 28416 -> 82495
      [] m = 28424 -> 82501
      [] m = 32640 -> 84990
      [] m = 32656 -> 84998
      [] m = 32660 -> 85000
      [] m = 32664 -> 85002
      [] m = 32672 -> 85005
      [] m = 32768 -> 85051

LatitudeOf(m) == IF m < 0 THEN -LatitudeNorth(-m) ELSE LatitudeNorth(m)

\* Mutant: the longitude taken from the pixel column without the centre
\* e[0] subtracted.
from_pixel_to_ll_uncentred(px, zoom, tile_size) ==
    LET c == Ac(zoom, tile_size)
    IN  <<Round(px[1] * 5625, c \div 64),
          LatitudeOf((c \div 2 - px[2]) * (FracScale \div c))>>

\* GoogleProjection.from_pixel_to_ll: f = (px[0] - e[0]) / Bc[zoom] and
\* g = (px[1] - e[1]) / -Cc[zoom], the result <<f, h>> in millidegrees
\* (360000 / c = 5625 / (c / 64), c being a multiple of 64).
from_pixel_to_ll(px, zoom, tile_size) ==
    LET c == Ac(zoom, tile_size)
    IN  <<Round((px[1] - c \div 2) * 5625, c \div 64),
          LatitudeOf((c \div 2 - px[2]) * (FracScale \div c))>>

\* ------------------------------------------------------------------- state

VARIABLES
    args,           \* the parsed command line: bbox, min, max, threads, size
    bbox,           \* args.bbox after __main__ has defaulted or clamped it
    opc,            \* where the main thread is
    started,        \* render threads started so far (loop variable i)
    z, x, y,        \* the loop variables of render_tiles
    sent,           \* sentinels put so far
    joined,         \* render threads joined so far
    queue,          \* Queue: the items not yet fetched, oldest first
    unfinished,     \* Queue.unfinished_tasks
    wpc,            \* where each render thread is
    witem,          \* r, the item a render thread fetched
    exists,         \* the local variable exists of RenderThread.loop
    dirs,           \* directories below (and including) tile_dir
    files,          \* tile files: pairs <<tile_uri, run that wrote it>>
    run,            \* which run against the tile directory this is
    entry,          \* how this run was entered: "main" or "call"
    pushed,         \* history: tile_uri of every request put, in order
    pops,           \* history: every item fetched, in order
    tileMarks,      \* history: task_done calls for requests
    sentinelMarks,  \* history: task_done calls for sentinels
    renders,        \* history: render_tile calls that returned
    skips,          \* history: requests whose file was found to exist
    interrupted,    \* history: a KeyboardInterrupt hit queue.put(t) in this run
    waiters,        \* Queue.not_empty._waiters: the render threads blocked in
                    \* get(), in the order they began to wait
    mutex_locked,   \* Queue.mutex is locked: left locked by the main thread,
                    \* or taken by a render thread inside get() or task_done()
                    \* where these are followed statement by statement
    td_unfinished,  \* the local variable unfinished of Queue.task_done, in
                    \* each render thread (0 outside task_done)
    logger,         \* the module global logger is bound where render_tiles runs
    mbtiles_path,   \* args.output: "" or the path of the MBTiles file
    archive,        \* what is at mbtiles_path: "absent", "old" (a file there
                    \* before the first run), "dir" (a directory there) or
                    \* "new" (the file written by disk_to_mbtiles)
    metadata,       \* tile_dir/metadata.json exists
    status,         \* how the program ended: its exit status ("0", "1"),
                    \* "-2" when an uncaught KeyboardInterrupt ended it
                    \* (killed by SIGINT), "running" before it has ended
    packaged,       \* history: calls of disk_to_mbtiles in this run
    geo, pix, geo_back  \* a point, its pixel and the way back
                    \* (from_ll_to_pixel and from_pixel_to_ll applied to it)

vars == <<args, bbox, opc, started, z, x, y, sent, joined, queue, unfinished,
          wpc, witem, exists, dirs, files, run, entry, pushed, pops,
          tileMarks, sentinelMarks, renders, skips, interrupted, waiters,
          mutex_locked, td_unfinished, logger,
          mbtiles_path, archive, metadata, status, packaged, geo, pix,
          geo_back>>

\* What the import into an MBTiles file reads and writes.
packaging == <<mbtiles_path, archive, metadata, status, packaged>>

\* What the projection of a single point reads and writes.
projection == <<geo, pix, geo_back>>

\* The render threads a run can have (renderers[i], i < threads).
Threads == 0 .. (MaxLoad - 2)

\* The path of tile_dir itself; <<"d", z>> and <<"d", z, x>> are the
\* directories below it.
tile_dir == <<"d">>

\* Mutant: a path built without the x directory.
tile_uri_without_x(tz, tx, ty) == <<tz, ty>>

\* os.path.join(tile_dir, str_z, str_x, str_y + "." + tile_ext): the path as
\* its components below tile_dir.
tile_uri(tz, tx, ty) == <<tz, tx, ty>>

\* t = (name, tile_uri, x, y, z), without the name.
Request(tz, tx, ty) == <<tile_uri(tz, tx, ty), tx, ty, tz>>

\* The tile_uri of a request.
Uri(r) == r[1]

\* os.path.isfile(tile_uri)
isfile(uri) == \E f \in files : f[1] = uri

\* im.save(tile_uri, ...): creates or overwrites the file.
save(uri) == {f \in files : f[1] # uri} \cup {<<uri, run>>}

\* ---------------------------------------------------------------- __main__

\* The bounding box handed to render_tiles: the default when --bbox is absent,
\* otherwise each value clamped to the valid longitude / latitude range.
ClampBBox(b) ==
    IF b = None
    THEN <<-MaxLongitude, -MERC_MAX_LATITUDE, MaxLongitude, MERC_MAX_LATITUDE>>
    ELSE <<Min(Max(-MaxLongitude, b[1]), MaxLongitude),
           Min(Max(-MERC_MAX_LATITUDE, b[2]), MERC_MAX_LATITUDE),
           Min(Max(-MaxLongitude, b[3]), MaxLongitude),
           Min(Max(-MERC_MAX_LATITUDE, b[4]), MERC_MAX_LATITUDE)>>

\* shutil.rmtree(tiles_dir) when tiles_dir exists and is a directory.
RmTree(fs) == IF tile_dir \in dirs THEN {} ELSE fs

\* __main__ up to the call of render_tiles: logger is bound (line 316), the
\* tile directory removed and the box defaulted or clamped.
Main ==
    /\ opc = "main"
    /\ logger' = TRUE
    /\ dirs' = RmTree(dirs)
    /\ files' = RmTree(files)
    /\ metadata' = (metadata /\ tile_dir \notin dirs)
    /\ bbox' = ClampBBox(args.bbox)
    /\ opc' = "start"
    /\ UNCHANGED <<mbtiles_path, archive, status, packaged, waiters,
                   mutex_locked, td_unfinished, projection>>
    /\ UNCHANGED <<args, started, z, x, y, sent, joined, queue, unfinished, wpc,
                   witem, exists, run, entry, pushed, pops, tileMarks,
                   sentinelMarks, renders, skips, interrupted>>

\* ------------------------------------------------------------ render_tiles

\* Mutant: a LifoQueue, the item put where the next get() takes it.
PutFront(q, item) == <<item>> \o q

\* Mutant: the directory taken to be there, os.mkdir never called.
mkdir_skipped(ds, path) == ds

\* if not os.path.isdir(path): os.mkdir(path)
mkdir(ds, path) == ds \cup {path}

\* Queue._put: the item is appended.
Put(q, item) == Append(q, item)

\* The stages of Queue.put a KeyboardInterrupt can arrive after: none (0),
\* self._put(item) (1), self.unfinished_tasks += 1 (2) and
\* self.not_empty.notify() (3, the whole put).
PutStages == 0 .. 3

\* Where a KeyboardInterrupt can arrive in "with self.not_full:" of
\* Queue.put, as <<stage, leak>>: after a stage of the body, the mutex
\* released as the exception leaves the with block; or while the block is
\* entered, after the mutex was taken (no stage done), or while it is left,
\* before the mutex is released (every stage done), the mutex then left
\* locked.
PutInterrupts ==
    {<<stage, FALSE>> : stage \in PutStages} \cup {<<0, TRUE>>, <<3, TRUE>>}

\* Condition.notify(): the thread that has waited longest leaves wait() and
\* tests the queue again; without a waiting thread nothing happens.
NotifiedWaiters(ws) == IF ws = << >> THEN ws ELSE Tail(ws)

NotifiedThreads(pcs, ws) ==
    IF ws = << >> THEN pcs ELSE [pcs EXCEPT ![Head(ws)] = "get"]

\* Queue.put(item) carried out up to a stage.
PutUpTo(item, stage) ==
    /\ queue' = IF stage >= 1 THEN Put(queue, item) ELSE queue
    /\ unfinished' = IF stage >= 2 THEN unfinished + 1 ELSE unfinished
    /\ waiters' = IF stage >= 3 THEN NotifiedWaiters(waiters) ELSE waiters
    /\ wpc' = IF stage >= 3 THEN NotifiedThreads(wpc, waiters) ELSE wpc

\* Mutant: a get that leaves the item in the queue.
DequeueKeeps(q) == q

\* Queue.get: the oldest item leaves the queue.
Dequeue(q) == Tail(q)

\* Mutant: a task_done that loses the decrement.
task_done_lost(n) == n

\* Queue.task_done: unfinished = self.unfinished_tasks - 1, stored unless it
\* is negative.
task_done(n) == n - 1

\* Queue.task_done raises ValueError("task_done() called too many times")
\* when the counter would become negative.
TooManyTimes(n) == task_done(n) < 0

\* Launch rendering threads: one iteration of the loop.
StartThread ==
    /\ opc = "start"
    /\ started < args.threads
    /\ wpc' = [wpc EXCEPT ![started] = "get"]
    /\ started' = started + 1
    /\ UNCHANGED <<args, bbox, opc, z, x, y, sent, joined, queue, unfinished,
                   witem, exists, dirs, files, run, entry, pushed, pops,
                   tileMarks, sentinelMarks, renders, skips, interrupted>>
    /\ UNCHANGED <<packaging, projection, td_unfinished,
                   mutex_locked, logger, waiters>>

\* if not os.path.isdir(tile_dir): os.mkdir(tile_dir); then the zoom loop begins.
MkRoot ==
    /\ opc = "start"
    /\ started = args.threads
    /\ dirs' = mkdir(dirs, tile_dir)
    /\ z' = args.min
    /\ opc' = "zoom"
    /\ UNCHANGED <<args, bbox, started, x, y, sent, joined, queue, unfinished,
                   wpc, witem, exists, files, run, entry, pushed, pops,
                   tileMarks, sentinelMarks, renders, skips, interrupted>>
    /\ UNCHANGED <<packaging, projection, td_unfinished,
                   mutex_locked, logger, waiters>>

\* px0, px1: the pixel corners of the box at a zoom level.
px0(b, zoom, size) == from_ll_to_pixel(<<b[1], b[4]>>, zoom, size)

px1(b, zoom, size) == from_ll_to_pixel(<<b[3], b[2]>>, zoom, size)

\* Mutant: a range that starts one index late.
FirstIndexLate(b, zoom, size, k) == IntDiv(px0(b, zoom, size)[k], size) + 1

\* range(int(px0[k] / tile_sizef), int(px1[k] / tile_sizef) + 1): first and
\* last index, k = 1 for x and 2 for y.
FirstIndex(b, zoom, size, k) == IntDiv(px0(b, zoom, size)[k], size)

\* Mutant: range() without the "+ 1", the last index left out.
LastIndexExclusive(b, zoom, size, k) == IntDiv(px1(b, zoom, size)[k], size) - 1

LastIndex(b, zoom, size, k) == IntDiv(px1(b, zoom, size)[k], size)

\* Mutant: a validation without the upper limit.
ValidNoUpper(v, zoom) == ~(v < 0)

\* Validate a co-ordinate: not ((v < 0) or (v >= 2 ** z)).
Valid(v, zoom) == ~((v < 0) \/ (v >= 2 ^ zoom))

\* One iteration of "for z in range(min_zoom, max_zoom + 1)" up to the x loop,
\* or the end of the zoom loop.
ZoomStep ==
    /\ opc = "zoom"
    /\ IF z > args.max
       THEN /\ opc' = "sentinel"
            /\ UNCHANGED <<dirs, x>>
       ELSE /\ dirs' = mkdir(dirs, <<"d", z>>)
            /\ x' = FirstIndex(bbox, z, args.size, 1)
            /\ opc' = "x"
    /\ UNCHANGED <<args, bbox, started, z, y, sent, joined, queue, unfinished,
                   wpc, witem, exists, files, run, entry, pushed, pops,
                   tileMarks, sentinelMarks, renders, skips, interrupted>>
    /\ UNCHANGED <<packaging, projection, td_unfinished,
                   mutex_locked, logger, waiters>>

\* One iteration of the x loop up to the y loop, or the end of the x loop.
XStep ==
    /\ opc = "x"
    /\ IF x > LastIndex(bbox, z, args.size, 1)
       THEN /\ z' = z + 1
            /\ opc' = "zoom"
            /\ UNCHANGED <<x, y, dirs>>
       ELSE IF ~Valid(x, z)
       THEN /\ x' = x + 1
            /\ UNCHANGED <<z, y, opc, dirs>>
       ELSE /\ dirs' = mkdir(dirs, <<"d", z, x>>)
            /\ y' = FirstIndex(bbox, z, args.size, 2)
            /\ opc' = "y"
            /\ UNCHANGED <<z, x>>
    /\ UNCHANGED <<args, bbox, started, sent, joined, queue, unfinished, wpc,
                   witem, exists, files, run, entry, pushed, pops, tileMarks,
                   sentinelMarks, renders, skips, interrupted>>
    /\ UNCHANGED <<packaging, projection, td_unfinished,
                   mutex_locked, logger, waiters>>

\* One iteration of the y loop (a request is put unless y is invalid), or the
\* end of the y loop.
YStep ==
    /\ opc = "y"
    /\ IF y > LastIndex(bbox, z, args.size, 2)
       THEN /\ x' = x + 1
            /\ opc' = "x"
            /\ UNCHANGED <<y, queue, unfinished, waiters, wpc, pushed>>
       ELSE IF ~Valid(y, z)
       THEN /\ y' = y + 1
            /\ UNCHANGED <<x, opc, queue, unfinished, waiters, wpc, pushed>>
       ELSE /\ PutUpTo(Request(z, x, y), 3)
            /\ pushed' = Append(pushed, tile_uri(z, x, y))
            /\ y' = y + 1
            /\ UNCHANGED <<x, opc>>
    /\ UNCHANGED <<args, bbox, started, z, sent, joined, witem, exists,
                   dirs, files, run, entry, pops, tileMarks, sentinelMarks,
                   renders, skips, interrupted>>
    /\ UNCHANGED <<packaging, projection, td_unfinished,
                   mutex_locked, logger>>

\* Mutant: the KeyboardInterrupt swallowed, the loop going on.
OnInterruptContinue == "y"

\* except KeyboardInterrupt: raise SystemExit(...): where the main thread is
\* afterwards.  Nothing in render_tiles or __main__ catches SystemExit.
OnInterrupt == "exit"

\* KeyboardInterrupt inside queue.put(t): SystemExit is raised.  The signal
\* arrives between two statements of put: before the item is appended, after
\* it is appended and before it is counted, after it is counted and before a
\* waiting thread is notified, or after that; and it can leave the mutex of
\* the queue locked.
Interrupt ==
    /\ opc = "y"
    /\ y <= LastIndex(bbox, z, args.size, 2)
    /\ Valid(y, z)
    /\ \E at \in PutInterrupts :
          /\ PutUpTo(Request(z, x, y), at[1])
          /\ mutex_locked' = at[2]
          /\ pushed' = IF at[1] >= 1
                       THEN Append(pushed, tile_uri(z, x, y))
                       ELSE pushed
    /\ opc' = OnInterrupt
    /\ interrupted' = TRUE
    /\ UNCHANGED <<args, bbox, started, z, x, y, sent, joined, witem,
                   exists, dirs, files, run, entry, pops, tileMarks,
                   sentinelMarks, renders, skips>>
    /\ UNCHANGED <<packaging, projection, td_unfinished,
                   logger>>

\* Where a KeyboardInterrupt can arrive in queue.join(), "with
\* self.all_tasks_done: while self.unfinished_tasks: self.all_tasks_done
\* .wait()".  "held": where the main thread holds the mutex or takes it
\* again before the exception leaves the with block (in wait(), inside the
\* try whose finally calls _acquire_restore): the mutex is released as the
\* block is left.  "locked": while the block is entered, after the mutex was
\* taken, or while it is left, before the mutex is released: the mutex
\* stays locked.  "released": in wait() after _release_save() has released
\* the mutex and before the try, or in _acquire_restore before the mutex is
\* taken again: the exception leaves the with block, whose __exit__
\* releases a mutex that the main thread does not hold.  wait() is called
\* while unfinished_tasks is not zero, and the main thread is still inside
\* it, the mutex released, once the last task_done() has brought the counter
\* to zero and notified it: the interrupt arrives at any value of the
\* counter.
JoinInterrupts == {"held", "locked", "released"}

\* KeyboardInterrupt in render_tiles anywhere but inside queue.put(t): nothing
\* catches it and it ends the main thread.  Inside queue.put(None) it arrives
\* as inside queue.put(t); inside queue.join() it arrives at one of
\* JoinInterrupts, and after "released" the main thread has still to leave
\* the with block (LeaveJoin), the render threads running on meanwhile.
UncaughtInterrupt ==
    /\ opc \in {"start", "zoom", "x", "y", "sentinel", "join_threads"}
    /\ IF opc = "sentinel" /\ sent < args.threads
       THEN /\ \E at \in PutInterrupts :
                  /\ PutUpTo(None, at[1])
                  /\ mutex_locked' = at[2]
                  /\ sent' = IF at[1] >= 1 THEN sent + 1 ELSE sent
            /\ opc' = "killed"
       ELSE IF opc = "sentinel"
       THEN /\ \E at \in JoinInterrupts :
                  /\ at = "released" => unfinished <= MaxLeftAtJoin
                  /\ mutex_locked' = (at = "locked")
                  /\ opc' = IF at = "released" THEN "unwinding" ELSE "killed"
            /\ UNCHANGED <<queue, unfinished, waiters, wpc, sent>>
       ELSE /\ opc' = "killed"
            /\ UNCHANGED <<queue, unfinished, waiters, wpc, sent,
                           mutex_locked>>
    /\ UNCHANGED <<args, bbox, started, z, x, y, joined, witem, exists, dirs,
                   files, run, entry, pushed, pops, tileMarks, sentinelMarks,
                   renders, skips, interrupted>>
    /\ UNCHANGED <<packaging, projection, td_unfinished, logger>>

\* Thread w is inside get() or task_done() where they are followed
\* statement by statement: between taking the mutex and leaving the with
\* block.
InsideQueue(w) ==
    wpc[w] \in {"get_test", "get_wait", "get_release", "get_pop",
                "get_notify", "get_exit", "get_raise", "get_raise_lost",
                "td_read", "td_notify", "td_store", "td_exit", "td_raise"}

\* The mutex has been released under a thread that had taken it, and a
\* thread is still inside get() or task_done(): the two methods no longer
\* exclude one another.
Betrayed == \E w \in Threads : InsideQueue(w)

\* The statements inside get() or task_done() that thread w can have
\* reached, once it has taken the mutex, with no other thread inside: in
\* get(), the test of the queue, then wait() (its test of the mutex, its
\* release of it) on an empty queue, and the pop, the notify and the end of
\* the with block otherwise; in task_done(), the read of the counter, then
\* the raise of ValueError, or the notify_all at zero, the store and the end
\* of the with block.
Reached(w) ==
    IF wpc[w] = "get"
    THEN IF queue = << >>
         THEN {"get_test", "get_wait", "get_release"}
         ELSE {"get_test", "get_pop", "get_notify", "get_exit"}
    ELSE IF wpc[w] \in {"sentinel", "log"}
    THEN IF TooManyTimes(unfinished) THEN {"td_read", "td_raise"}
         ELSE IF task_done(unfinished) = 0
         THEN {"td_read", "td_notify", "td_store", "td_exit"}
         ELSE {"td_read", "td_store", "td_exit"}
    ELSE {}

\* The with block of queue.join() is left by the KeyboardInterrupt raised
\* while the main thread had released the mutex: Condition.__exit__ calls
\* release() on the mutex, a threading.Lock, which any thread can release.
\* Unlocked, release() raises RuntimeError("release unlocked lock"), which
\* ends the main thread in place of the KeyboardInterrupt.  Locked, by a
\* render thread inside get() or task_done(), the mutex is released under
\* that thread and the KeyboardInterrupt ends the main thread.  No other
\* thread has been inside since that thread took the mutex, so what it did
\* inside up to this moment is part of this step: at is the statement it
\* has reached, with the item popped from get()'s pop on, the counter read
\* from task_done()'s read on and stored from its store on.
LeaveJoin ==
    /\ opc = "unwinding"
    /\ \/ /\ opc' = "runtime_error"
          /\ UNCHANGED <<queue, unfinished, wpc, witem, pops, tileMarks,
                         sentinelMarks, td_unfinished>>
       \/ /\ opc' = "killed"
          /\ \E w \in Threads : \E at \in Reached(w) :
                /\ wpc' = [wpc EXCEPT ![w] = at]
                /\ IF at \in {"get_notify", "get_exit"}
                   THEN /\ witem' = [witem EXCEPT ![w] = Head(queue)]
                        /\ queue' = Dequeue(queue)
                        /\ pops' = Append(pops, Head(queue))
                   ELSE UNCHANGED <<witem, queue, pops>>
                /\ td_unfinished' =
                      IF at \in {"td_notify", "td_store", "td_exit", "td_raise"}
                      THEN [td_unfinished EXCEPT ![w] = task_done(unfinished)]
                      ELSE td_unfinished
                /\ IF at = "td_exit"
                   THEN /\ unfinished' = task_done(unfinished)
                        /\ tileMarks' = IF witem[w] = None THEN tileMarks
                                        ELSE tileMarks + 1
                        /\ sentinelMarks' = IF witem[w] = None
                                            THEN sentinelMarks + 1
                                            ELSE sentinelMarks
                   ELSE UNCHANGED <<unfinished, tileMarks, sentinelMarks>>
    /\ mutex_locked' = FALSE
    /\ UNCHANGED <<args, bbox, started, z, x, y, sent, joined, exists, dirs,
                   files, run, entry, pushed, renders, skips, interrupted,
                   waiters>>
    /\ UNCHANGED <<packaging, projection, logger>>

\* for _ in range(threads): queue.put(None)
PutSentinel ==
    /\ opc = "sentinel"
    /\ sent < args.threads
    /\ PutUpTo(None, 3)
    /\ sent' = sent + 1
    /\ UNCHANGED <<args, bbox, opc, started, z, x, y, joined, witem,
                   exists, dirs, files, run, entry, pushed, pops, tileMarks,
                   sentinelMarks, renders, skips, interrupted>>
    /\ UNCHANGED <<packaging, projection, td_unfinished,
                   mutex_locked, logger>>

\* Mutant: queue.join() returning with one task still unfinished.
DrainedEarly(n) == n <= 1

\* queue.join() returns: no unfinished task is left.
Drained(n) == n = 0

QueueJoin ==
    /\ opc = "sentinel"
    /\ sent = args.threads
    /\ Drained(unfinished)
    /\ opc' = "join_threads"
    /\ UNCHANGED <<args, bbox, started, z, x, y, sent, joined, queue,
                   unfinished, wpc, witem, exists, dirs, files, run, entry,
                   pushed, pops, tileMarks, sentinelMarks, renders, skips, interrupted>>
    /\ UNCHANGED <<packaging, projection, td_unfinished,
                   mutex_locked, logger, waiters>>

\* Thread.join() returns: the thread has left loop (by break or by an exception).
Terminated(pc) ==
    pc \in {"stopped", "failed", "crashed", "get_failed", "get_lost"}

\* renderers[i].join(): one iteration.
ThreadJoin ==
    /\ opc = "join_threads"
    /\ joined < args.threads
    /\ Terminated(wpc[joined])
    /\ joined' = joined + 1
    /\ UNCHANGED <<args, bbox, opc, started, z, x, y, sent, queue, unfinished,
                   wpc, witem, exists, dirs, files, run, entry, pushed, pops,
                   tileMarks, sentinelMarks, renders, skips, interrupted>>
    /\ UNCHANGED <<packaging, projection, td_unfinished,
                   mutex_locked, logger, waiters>>

\* render_tiles returns.
Return ==
    /\ opc = "join_threads"
    /\ joined = args.threads
    /\ opc' = "returned"
    /\ UNCHANGED <<args, bbox, started, z, x, y, sent, joined, queue,
                   unfinished, wpc, witem, exists, dirs, files, run, entry,
                   pushed, pops, tileMarks, sentinelMarks, renders, skips, interrupted>>
    /\ UNCHANGED <<packaging, projection, td_unfinished,
                   mutex_locked, logger, waiters>>

\* ------------------------------------------------------- RenderThread.loop

\* get() and task_done() run under the mutex of the queue: each is one step
\* while no thread is inside either of them without the mutex (Betrayed;
\* they are followed statement by statement then, below).  A thread blocks
\* in them for ever once the main thread has left the mutex locked.

\* r = self.q.get() finds the queue empty: the thread waits on not_empty
\* until a put notifies it.
Wait(w) ==
    /\ wpc[w] = "get"
    /\ ~Betrayed
    /\ ~mutex_locked
    /\ queue = << >>
    /\ wpc' = [wpc EXCEPT ![w] = "waiting"]
    /\ waiters' = Append(waiters, w)
    /\ UNCHANGED <<args, bbox, opc, started, z, x, y, sent, joined, queue,
                   unfinished, witem, exists, dirs, files, run, entry, pushed,
                   pops, tileMarks, sentinelMarks, renders, skips, interrupted>>
    /\ UNCHANGED <<packaging, projection, td_unfinished,
                   mutex_locked, logger>>

\* r = self.q.get() returns the oldest item: the queue is not empty when the
\* thread tests it (at its call of get(), or after it was notified).
Get(w) ==
    /\ wpc[w] = "get"
    /\ ~Betrayed
    /\ ~mutex_locked
    /\ queue # << >>
    /\ witem' = [witem EXCEPT ![w] = Head(queue)]
    /\ queue' = Dequeue(queue)
    /\ pops' = Append(pops, Head(queue))
    /\ wpc' = [wpc EXCEPT ![w] = IF Head(queue) = None THEN "sentinel" ELSE "check"]
    /\ UNCHANGED <<args, bbox, opc, started, z, x, y, sent, joined, unfinished,
                   exists, dirs, files, run, entry, pushed, tileMarks,
                   sentinelMarks, renders, skips, interrupted>>
    /\ UNCHANGED <<packaging, projection, td_unfinished,
                   mutex_locked, logger, waiters>>

\* if r is None: self.q.task_done(); break.  The ValueError of task_done is
\* caught nowhere and ends the thread.
Shutdown(w) ==
    /\ wpc[w] = "sentinel"
    /\ ~Betrayed
    /\ ~mutex_locked
    /\ IF TooManyTimes(unfinished)
       THEN /\ wpc' = [wpc EXCEPT ![w] = "crashed"]
            /\ UNCHANGED <<unfinished, sentinelMarks>>
       ELSE /\ unfinished' = task_done(unfinished)
            /\ sentinelMarks' = sentinelMarks + 1
            /\ wpc' = [wpc EXCEPT ![w] = "stopped"]
    /\ UNCHANGED <<args, bbox, opc, started, z, x, y, sent, joined, queue,
                   witem, exists, dirs, files, run, entry, pushed, pops,
                   tileMarks, renders, skips, interrupted>>
    /\ UNCHANGED <<packaging, projection, td_unfinished,
                   mutex_locked, logger, waiters>>

\* Mutant: rendering whether or not the file exists.
BranchAlwaysRenders(fileExists) == "render"

\* The branch taken after the existence check: "log" (skip) or "render".
Branch(fileExists) == IF fileExists THEN "log" ELSE "render"

\* exists = ""; if os.path.isfile(tile_uri): exists = "exists"; else: render
Check(w) ==
    /\ wpc[w] = "check"
    /\ exists' = [exists EXCEPT ![w] = IF isfile(Uri(witem[w])) THEN "exists" ELSE ""]
    /\ wpc' = [wpc EXCEPT ![w] = Branch(isfile(Uri(witem[w])))]
    /\ skips' = IF Branch(isfile(Uri(witem[w]))) = "render" THEN skips ELSE skips + 1
    /\ UNCHANGED <<args, bbox, opc, started, z, x, y, sent, joined, queue,
                   unfinished, witem, dirs, files, run, entry, pushed, pops,
                   tileMarks, sentinelMarks, renders, interrupted>>
    /\ UNCHANGED <<packaging, projection, td_unfinished,
                   mutex_locked, logger, waiters>>

\* self.render_tile(tile_uri, x, y, z) returns: the image was saved.
Render(w) ==
    /\ wpc[w] = "render"
    /\ files' = save(Uri(witem[w]))
    /\ renders' = renders + 1
    /\ wpc' = [wpc EXCEPT ![w] = "log"]
    /\ UNCHANGED <<args, bbox, opc, started, z, x, y, sent, joined, queue,
                   unfinished, witem, exists, dirs, run, entry, pushed, pops,
                   tileMarks, sentinelMarks, skips, interrupted>>
    /\ UNCHANGED <<packaging, projection, td_unfinished,
                   mutex_locked, logger, waiters>>

\* An exception raised in loop() is caught nowhere: it ends the thread that
\* raised it, and no other.
Raise(pcs, w) == [pcs EXCEPT ![w] = "failed"]

\* self.render_tile raises: the exception leaves loop and ends the thread.
RenderFail(w) ==
    /\ wpc[w] = "render"
    /\ wpc' = Raise(wpc, w)
    /\ UNCHANGED <<args, bbox, opc, started, z, x, y, sent, joined, queue,
                   unfinished, witem, exists, dirs, files, run, entry, pushed,
                   pops, tileMarks, sentinelMarks, renders, skips, interrupted>>
    /\ UNCHANGED <<packaging, projection, td_unfinished,
                   mutex_locked, logger, waiters>>

\* The logging and self.q.task_done() that end an iteration.  The
\* ValueError of task_done is caught nowhere and ends the thread.
TaskDone(w) ==
    /\ wpc[w] = "log"
    /\ ~Betrayed
    /\ ~mutex_locked
    /\ IF TooManyTimes(unfinished)
       THEN /\ wpc' = [wpc EXCEPT ![w] = "crashed"]
            /\ UNCHANGED <<unfinished, tileMarks, witem, exists>>
       ELSE /\ unfinished' = task_done(unfinished)
            /\ tileMarks' = tileMarks + 1
            /\ wpc' = [wpc EXCEPT ![w] = "get"]
            /\ witem' = [witem EXCEPT ![w] = None]
            /\ exists' = [exists EXCEPT ![w] = ""]
    /\ UNCHANGED <<args, bbox, opc, started, z, x, y, sent, joined, queue,
                   dirs, files, run, entry, pushed, pops, sentinelMarks,
                   renders, skips, interrupted>>
    /\ UNCHANGED <<packaging, projection, td_unfinished,
                   mutex_locked, logger, waiters>>

\* ------------------------------- get() and task_done() statement by statement

\* Once the main thread has released the mutex under a render thread
\* (LeaveJoin), the mutex no longer excludes: that thread is inside get()
\* or task_done() without it, a second thread can enter, and can have the
\* mutex released under it in turn by the first one leaving.  The
\* statements of the two methods are steps of their own for as long as a
\* thread is inside.  Condition.wait() and Condition.notify() raise
\* RuntimeError when they find the mutex unlocked (_is_owned), release() of
\* the unlocked mutex raises RuntimeError, and an exception raised inside
\* the with block leaves it through __exit__, which releases the mutex if
\* it is locked, by whichever thread.  The exception ends the thread.

\* What no step of a render thread inside get() or task_done() changes.
OutsideQueue ==
    UNCHANGED <<args, bbox, opc, started, z, x, y, sent, joined, dirs, files,
                run, entry, pushed, renders, skips, interrupted, logger,
                packaging, projection>>

\* "with self.not_empty:" in get(), "with self.all_tasks_done:" in
\* task_done(), entered while another thread is inside: the thread takes
\* the mutex once it is unlocked.
Acquire(w) ==
    /\ Betrayed
    /\ wpc[w] \in {"get", "sentinel", "log"}
    /\ ~mutex_locked
    /\ mutex_locked' = TRUE
    /\ wpc' = [wpc EXCEPT ![w] = IF wpc[w] = "get" THEN "get_test" ELSE "td_read"]
    /\ OutsideQueue
    /\ UNCHANGED <<queue, unfinished, witem, exists, pops, tileMarks,
                   sentinelMarks, waiters, td_unfinished>>

\* while not self._qsize(): self.not_empty.wait(), statement by statement:
\* the test of the queue; in wait(), the test of the mutex, RuntimeError
\* ("cannot wait on un-acquired lock") when it is unlocked; the release of
\* the mutex (_release_save), RuntimeError when it is unlocked, after which
\* the thread waits for a notify.
GetWhile(w) ==
    /\ wpc[w] \in {"get_test", "get_wait", "get_release"}
    /\ IF wpc[w] = "get_test"
       THEN /\ wpc' = [wpc EXCEPT ![w] = IF queue = << >> THEN "get_wait"
                                         ELSE "get_pop"]
            /\ UNCHANGED <<mutex_locked, waiters>>
       ELSE IF ~mutex_locked
       THEN /\ wpc' = [wpc EXCEPT ![w] = "get_raise"]
            /\ UNCHANGED <<mutex_locked, waiters>>
       ELSE IF wpc[w] = "get_wait"
       THEN /\ wpc' = [wpc EXCEPT ![w] = "get_release"]
            /\ UNCHANGED <<mutex_locked, waiters>>
       ELSE /\ mutex_locked' = FALSE
            /\ waiters' = Append(waiters, w)
            /\ wpc' = [wpc EXCEPT ![w] = "waiting"]
    /\ OutsideQueue
    /\ UNCHANGED <<queue, unfinished, witem, exists, pops, tileMarks,
                   sentinelMarks, td_unfinished>>

\* item = self._get(): deque.popleft(), IndexError when another thread has
\* taken the last item since the test.
GetPop(w) ==
    /\ wpc[w] = "get_pop"
    /\ IF queue = << >>
       THEN /\ wpc' = [wpc EXCEPT ![w] = "get_raise"]
            /\ UNCHANGED <<queue, witem, pops>>
       ELSE /\ witem' = [witem EXCEPT ![w] = Head(queue)]
            /\ queue' = Dequeue(queue)
            /\ pops' = Append(pops, Head(queue))
            /\ wpc' = [wpc EXCEPT ![w] = "get_notify"]
    /\ OutsideQueue
    /\ UNCHANGED <<unfinished, exists, tileMarks, sentinelMarks, waiters,
                   td_unfinished, mutex_locked>>

\* self.not_full.notify(): RuntimeError("cannot notify on un-acquired lock")
\* when the mutex is unlocked; the item taken is lost with the exception.
GetNotify(w) ==
    /\ wpc[w] = "get_notify"
    /\ wpc' = [wpc EXCEPT ![w] = IF mutex_locked THEN "get_exit" ELSE "get_raise_lost"]
    /\ OutsideQueue
    /\ UNCHANGED <<queue, unfinished, witem, exists, pops, tileMarks,
                   sentinelMarks, waiters, td_unfinished, mutex_locked>>

\* return item: the with block is left and the mutex released; r is the
\* item.  release() of the unlocked mutex raises RuntimeError and the item
\* is lost.
GetExit(w) ==
    /\ wpc[w] = "get_exit"
    /\ wpc' = [wpc EXCEPT ![w] = IF ~mutex_locked THEN "get_lost"
                                 ELSE IF witem[w] = None THEN "sentinel"
                                 ELSE "check"]
    /\ mutex_locked' = FALSE
    /\ OutsideQueue
    /\ UNCHANGED <<queue, unfinished, witem, exists, pops, tileMarks,
                   sentinelMarks, waiters, td_unfinished>>

\* An exception raised inside get() leaves the with block: the mutex is
\* released if it is locked, and the thread ends.
GetRaise(w) ==
    /\ wpc[w] \in {"get_raise", "get_raise_lost"}
    /\ wpc' = [wpc EXCEPT ![w] = IF wpc[w] = "get_raise" THEN "get_failed"
                                 ELSE "get_lost"]
    /\ mutex_locked' = FALSE
    /\ OutsideQueue
    /\ UNCHANGED <<queue, unfinished, witem, exists, pops, tileMarks,
                   sentinelMarks, waiters, td_unfinished>>

\* unfinished = self.unfinished_tasks - 1, and the tests of it: ValueError
\* when it is negative; notify_all() when it is zero.
TdRead(w) ==
    /\ wpc[w] = "td_read"
    /\ td_unfinished' = [td_unfinished EXCEPT ![w] = task_done(unfinished)]
    /\ wpc' = [wpc EXCEPT ![w] = IF TooManyTimes(unfinished) THEN "td_raise"
                                 ELSE IF task_done(unfinished) = 0 THEN "td_notify"
                                 ELSE "td_store"]
    /\ OutsideQueue
    /\ UNCHANGED <<queue, unfinished, witem, exists, pops, tileMarks,
                   sentinelMarks, waiters, mutex_locked>>

\* self.all_tasks_done.notify_all(): RuntimeError when the mutex is
\* unlocked, the counter then left as it was.
TdNotify(w) ==
    /\ wpc[w] = "td_notify"
    /\ wpc' = [wpc EXCEPT ![w] = IF mutex_locked THEN "td_store" ELSE "td_raise"]
    /\ OutsideQueue
    /\ UNCHANGED <<queue, unfinished, witem, exists, pops, tileMarks,
                   sentinelMarks, waiters, td_unfinished, mutex_locked>>

\* self.unfinished_tasks = unfinished
TdStore(w) ==
    /\ wpc[w] = "td_store"
    /\ unfinished' = td_unfinished[w]
    /\ tileMarks' = IF witem[w] = None THEN tileMarks ELSE tileMarks + 1
    /\ sentinelMarks' = IF witem[w] = None THEN sentinelMarks + 1 ELSE sentinelMarks
    /\ wpc' = [wpc EXCEPT ![w] = "td_exit"]
    /\ OutsideQueue
    /\ UNCHANGED <<queue, witem, exists, pops, waiters, td_unfinished,
                   mutex_locked>>

\* task_done() returns: the with block is left and the mutex released; the
\* loop goes on to its next get(), or ends by break after a sentinel.
\* release() of the unlocked mutex raises RuntimeError.
TdExit(w) ==
    /\ wpc[w] = "td_exit"
    /\ IF ~mutex_locked
       THEN /\ wpc' = [wpc EXCEPT ![w] = "crashed"]
            /\ UNCHANGED <<witem, exists>>
       ELSE IF witem[w] = None
       THEN /\ wpc' = [wpc EXCEPT ![w] = "stopped"]
            /\ UNCHANGED <<witem, exists>>
       ELSE /\ wpc' = [wpc EXCEPT ![w] = "get"]
            /\ witem' = [witem EXCEPT ![w] = None]
            /\ exists' = [exists EXCEPT ![w] = ""]
    /\ mutex_locked' = FALSE
    /\ td_unfinished' = [td_unfinished EXCEPT ![w] = 0]
    /\ OutsideQueue
    /\ UNCHANGED <<queue, unfinished, pops, tileMarks, sentinelMarks,
                   waiters>>

\* An exception raised inside task_done() leaves the with block: the mutex
\* is released if it is locked, and the thread ends.
TdRaise(w) ==
    /\ wpc[w] = "td_raise"
    /\ wpc' = [wpc EXCEPT ![w] = "crashed"]
    /\ mutex_locked' = FALSE
    /\ td_unfinished' = [td_unfinished EXCEPT ![w] = 0]
    /\ OutsideQueue
    /\ UNCHANGED <<queue, unfinished, witem, exists, pops, tileMarks,
                   sentinelMarks, waiters>>

\* ---------------------------------------------- __main__ after render_tiles

\* os.path.isfile(mbtiles_path): true of a regular file, false of a
\* directory and of a path where nothing is.
ArchiveIsFile(a) == a \in {"old", "new"}

\* if mbtiles_path: an existing file ends the program with sys.exit(1);
\* otherwise metadata.json is written into tiles_dir and disk_to_mbtiles is
\* called, which writes the MBTiles file, or ends the program with
\* sys.exit(1) where it cannot open the path as a database (a directory).
\* The program ends with status 0 otherwise.
Package ==
    /\ opc = "returned"
    /\ entry = "main"
    /\ opc' = "exited"
    /\ IF mbtiles_path = ""
       THEN /\ status' = "0"
            /\ UNCHANGED <<archive, metadata, packaged>>
       ELSE IF ArchiveIsFile(archive)
       THEN /\ status' = "1"
            /\ UNCHANGED <<archive, metadata, packaged>>
       ELSE /\ metadata' = TRUE
            /\ packaged' = packaged + 1
            /\ archive' = IF archive = "dir" THEN "dir" ELSE "new"
            /\ status' = IF archive = "dir" THEN "1" ELSE "0"
    /\ UNCHANGED <<args, bbox, started, z, x, y, sent, joined, queue,
                   unfinished, wpc, witem, exists, dirs, files, run, entry,
                   pushed, pops, tileMarks, sentinelMarks, renders, skips,
                   interrupted, waiters, mutex_locked, logger, mbtiles_path,
                   td_unfinished, projection>>

\* The program ends after an interrupt: once the main thread has ended by
\* SystemExit, by the uncaught KeyboardInterrupt or by the RuntimeError that
\* replaced it, the interpreter waits for the render threads that were
\* started and ends when each of them has ended, with exit status 1 after
\* SystemExit("Ctrl-C detected, exiting...") and after the RuntimeError, and
\* killed by SIGINT after the KeyboardInterrupt.  While a render thread
\* lives (blocked in get() or task_done()) the program does not end.
InterpreterExit ==
    /\ opc \in {"exit", "killed", "runtime_error"}
    /\ entry = "main"
    /\ \A w \in Threads : w < started => Terminated(wpc[w])
    /\ status' = IF opc = "killed" THEN "-2" ELSE "1"
    /\ opc' = "aborted"
    /\ UNCHANGED <<args, bbox, started, z, x, y, sent, joined, queue,
                   unfinished, wpc, witem, exists, dirs, files, run, entry,
                   pushed, pops, tileMarks, sentinelMarks, renders, skips,
                   interrupted, waiters, mutex_locked, logger, mbtiles_path,
                   archive, metadata, packaged,
                   td_unfinished, projection>>

\* -------------------------------------------------------------------- runs

\* A further run against the same tile directory once the program has ended
\* or a call of render_tiles has returned: the program is started again
\* ("main"), or render_tiles is called again ("call").  render_tiles begins
\* with logger.info (line 143), and logger is bound by the __main__ block
\* only: a call made where that block has run goes on to start the threads,
\* a call from a module that imported this one ends at once in a NameError.
\* Only the file system is carried over.  (A run that an interrupt or a
\* NameError ended is not followed by a further one.)
Rerun ==
    /\ \/ opc = "returned" /\ entry = "call"
       \/ opc = "exited"
    /\ run < MaxRuns
    /\ Len(pushed) <= MaxRerunLoad
    /\ \E e \in {"main", "call"}, bound \in BOOLEAN :
          /\ entry' = e
          /\ logger' = (e = "call" /\ bound)
          /\ opc' = IF e = "main" THEN "main"
                    ELSE IF bound THEN "start" ELSE "raised"
    /\ run' = run + 1
    /\ started' = 0
    /\ z' = 0 /\ x' = 0 /\ y' = 0
    /\ sent' = 0
    /\ joined' = 0
    /\ queue' = << >>
    /\ unfinished' = 0
    /\ wpc' = [w \in Threads |-> "unstarted"]
    /\ witem' = [w \in Threads |-> None]
    /\ exists' = [w \in Threads |-> ""]
    /\ pushed' = << >>
    /\ pops' = << >>
    /\ tileMarks' = 0
    /\ sentinelMarks' = 0
    /\ renders' = 0
    /\ skips' = 0
    /\ interrupted' = FALSE
    /\ waiters' = << >>
    /\ mutex_locked' = FALSE
    /\ td_unfinished' = [w \in Threads |-> 0]
    /\ status' = "running"
    /\ packaged' = 0
    /\ UNCHANGED <<args, bbox, dirs, files, mbtiles_path, archive, metadata,
                   projection>>

\* ------------------------------------------------------------------ inputs

\* args.size: choices=[1024, 512, 256]
TileSizes == {256, 512, 1024}

\* A --bbox beyond the limits in the east and the north: after clamping, the
\* north-east quarter of the Mercator extent.
QuarterBox == <<0, 0, 200000, 90000>>

\* Raw --bbox values of the pipeline specifications (None: no --bbox).
PipelineBBoxes ==
    { None,
      QuarterBox,
      <<180000, -45000, -180000, 45000>> }

\* Raw --bbox values of the enumeration specification.
EnumLongitudes == {-200000, -180000, 0, 45000, 180000}

EnumLatitudes == {-90000, -45000, 0, 30000, 66513, 85051}

EnumBBoxes ==
    {None} \cup
    {<<w, s, e, n>> : w \in EnumLongitudes, s \in EnumLatitudes,
                      e \in EnumLongitudes, n \in EnumLatitudes}

\* The longitudes and the latitudes of the points projected for their own
\* sake, within the limits of longitude and of the Mercator latitude: the
\* limits themselves, round values, and values that fall between pixels.
ProjLongitudes ==
    {-180000, -179999, -150000, -122419, -120000, -90000, -74006, -60000,
     -45000, -43173, -30000, -1, 0, 1, 2352, 13405, 30000, 37618, 45000,
     60000, 77209, 90000, 116407, 120000, 139692, 150000, 151209, 179999,
     180000}

ProjLatitudes ==
    {-85051, -85000, -82500, -77500, -75000, -66513, -65000, -64147,
     -62500, -59913, -55000, -47500, -35690, -12345, -5000, -2500, -1234,
     -500, -1, 0, 1, 500, 1234, 2500, 5000, 12345, 35690, 47500, 55000,
     59913, 62500, 64147, 65000, 66513, 75000, 77500, 82500, 85000, 85051}

\* The min and max arguments of the program: choices=range(1, 18).
ZoomChoices == 1 .. 17

\* The zoom levels up to a bound that the program accepts.
MainZooms(top) == {zoom \in 0 .. top : zoom \in ZoomChoices}

Args(boxes, zooms, threads, sizes) ==
    [bbox : boxes, min : zooms, max : zooms, threads : threads, size : sizes]

\* The state before a first run against a tile directory that is not there
\* or holds a tile of an earlier program.
BeforeRun ==
    /\ started = 0
    /\ z = 0 /\ x = 0 /\ y = 0
    /\ sent = 0
    /\ joined = 0
    /\ queue = << >>
    /\ unfinished = 0
    /\ wpc = [w \in Threads |-> "unstarted"]
    /\ witem = [w \in Threads |-> None]
    /\ exists = [w \in Threads |-> ""]
    /\ dirs \in {{}, {tile_dir, <<"d", 1>>, <<"d", 1, 0>>}}
    /\ files = IF dirs = {} THEN {} ELSE {<<tile_uri(1, 0, 0), 0>>}
    /\ run = 1
    /\ pushed = << >>
    /\ pops = << >>
    /\ tileMarks = 0
    /\ sentinelMarks = 0
    /\ renders = 0
    /\ skips = 0
    /\ interrupted = FALSE
    /\ waiters = << >>
    /\ mutex_locked = FALSE
    /\ td_unfinished = [w \in Threads |-> 0]
    /\ metadata = FALSE
    /\ status = "running"
    /\ packaged = 0

\* No point is projected for its own sake.
NoProjection == geo = None /\ pix = None /\ geo_back = None

\* The program is started with parsed arguments.
InitWith(argset) ==
    /\ args \in argset
    /\ bbox = args.bbox
    /\ opc = "main"
    /\ entry = "main"
    /\ logger = FALSE
    /\ BeforeRun
    /\ NoProjection

\* render_tiles is called, with a box within the limits, where logger is
\* bound (its parameters are not confined to the program's choices).
InitCalled(argset) ==
    /\ args \in argset
    /\ bbox = args.bbox
    /\ opc = "start"
    /\ entry = "call"
    /\ logger = TRUE
    /\ BeforeRun
    /\ NoProjection

\* The MBTiles file is to be written and does not exist yet.
FreshOutput ==
    /\ mbtiles_path = "o"
    /\ archive = "absent"

\* ---------------------------------------------------------- specifications

PipelineArgs ==
    {a \in Args(PipelineBBoxes, MainZooms(MaxLoad), 1 .. MaxLoad, {256}) :
        /\ a.threads + a.max <= MaxLoad
        /\ a.min \in {1, a.max + 1}}

Init == InitWith(PipelineArgs) /\ FreshOutput

Orchestrator ==
    \/ Main
    \/ StartThread
    \/ MkRoot
    \/ ZoomStep
    \/ XStep
    \/ YStep
    \/ PutSentinel
    \/ QueueJoin
    \/ ThreadJoin
    \/ Return
    \/ Package
    \/ Rerun

Worker(w) ==
    \/ Wait(w)
    \/ Get(w)
    \/ Shutdown(w)
    \/ Check(w)
    \/ Render(w)
    \/ TaskDone(w)

\* The steps of a render thread through get() and task_done() while the
\* mutex is betrayed.
WorkerByStatement(w) ==
    \/ Acquire(w)
    \/ GetWhile(w)
    \/ GetPop(w)
    \/ GetNotify(w)
    \/ GetExit(w)
    \/ GetRaise(w)
    \/ TdRead(w)
    \/ TdNotify(w)
    \/ TdStore(w)
    \/ TdExit(w)
    \/ TdRaise(w)

Next ==
    \/ Orchestrator
    \/ Interrupt
    \/ UncaughtInterrupt
    \/ LeaveJoin
    \/ InterpreterExit
    \/ \E w \in Threads : Worker(w)
    \/ \E w \in Threads : WorkerByStatement(w)
    \/ \E w \in Threads : RenderFail(w)

Spec == Init /\ [][Next]_vars

\* The enumeration alone (the render threads are not scheduled), over a wide
\* set of boxes, zoom ranges and tile sizes.
EnumCallBoxes == {ClampBBox(b) : b \in EnumBBoxes}

InitEnum ==
    /\ \/ InitWith(Args(EnumBBoxes, MainZooms(MaxEnumZoom), {1}, TileSizes))
       \/ InitCalled({a \in Args(EnumCallBoxes, 0 .. MaxEnumZoom, {1}, TileSizes) :
                        a.min = 0})
    /\ FreshOutput

NextEnum ==
    \/ Main
    \/ StartThread
    \/ MkRoot
    \/ ZoomStep
    \/ XStep
    \/ YStep
    \/ Interrupt
    \/ PutSentinel

SpecEnum == InitEnum /\ [][NextEnum]_vars

\* The run with fair scheduling, every render call returning and no
\* KeyboardInterrupt: the main thread and every render thread keep taking
\* their next step while they have one.
NextFair ==
    \/ Main
    \/ StartThread
    \/ MkRoot
    \/ ZoomStep
    \/ XStep
    \/ YStep
    \/ PutSentinel
    \/ QueueJoin
    \/ ThreadJoin
    \/ Return
    \/ Package
    \/ \E w \in Threads : Worker(w)

SpecFair ==
    /\ Init
    /\ [][NextFair]_vars
    /\ WF_vars(Main \/ StartThread \/ MkRoot \/ ZoomStep \/ XStep \/ YStep
               \/ PutSentinel \/ QueueJoin \/ ThreadJoin \/ Return
               \/ Package)
    /\ \A w \in Threads : WF_vars(Worker(w))

\* The program for every state of the output path: no MBTiles file asked
\* for, or one asked for at a path where nothing is, where a file is, or
\* where a directory is.
InitPack ==
    /\ InitWith({a \in PipelineArgs : a.bbox = QuarterBox})
    /\ \/ mbtiles_path = "" /\ archive = "absent"
       \/ mbtiles_path = "o" /\ archive \in {"absent", "old", "dir"}

SpecPack == InitPack /\ [][Next]_vars

\* The projection alone: GoogleProjection(zoom + 1, tile_size) is built, a
\* point is projected to its pixel at the zoom level, and the pixel is taken
\* back to a point.
InitProj ==
    /\ \E zoom \in 0 .. MaxProjZoom :
          /\ args \in Args({None}, {zoom}, {1}, TileSizes)
          /\ z = zoom
    /\ bbox = None
    /\ opc = "project"
    /\ entry = "call"
    /\ logger = TRUE
    /\ started = 0
    /\ x = 0 /\ y = 0
    /\ sent = 0
    /\ joined = 0
    /\ queue = << >>
    /\ unfinished = 0
    /\ wpc = [w \in Threads |-> "unstarted"]
    /\ witem = [w \in Threads |-> None]
    /\ exists = [w \in Threads |-> ""]
    /\ dirs = {}
    /\ files = {}
    /\ run = 1
    /\ pushed = << >>
    /\ pops = << >>
    /\ tileMarks = 0
    /\ sentinelMarks = 0
    /\ renders = 0
    /\ skips = 0
    /\ interrupted = FALSE
    /\ waiters = << >>
    /\ mutex_locked = FALSE
    /\ td_unfinished = [w \in Threads |-> 0]
    /\ metadata = FALSE
    /\ status = "running"
    /\ packaged = 0
    /\ FreshOutput
    /\ geo \in ProjLongitudes \X ProjLatitudes
    /\ pix = None
    /\ geo_back = None

\* What the projection of a single point leaves alone.
OutsideProjection ==
    UNCHANGED <<args, bbox, started, z, x, y, sent, joined, queue, unfinished,
                wpc, witem, exists, dirs, files, run, entry, pushed, pops,
                tileMarks, sentinelMarks, renders, skips, interrupted,
                waiters, mutex_locked, td_unfinished,
                logger, packaging>>

\* pix = from_ll_to_pixel(geo, z)
ToPixel ==
    /\ opc = "project"
    /\ pix' = from_ll_to_pixel(geo, z, args.size)
    /\ opc' = "projected"
    /\ UNCHANGED <<geo, geo_back>>
    /\ OutsideProjection

\* geo_back = from_pixel_to_ll(pix, z)
ToGeo ==
    /\ opc = "projected"
    /\ geo_back' = from_pixel_to_ll(pix, z, args.size)
    /\ opc' = "taken_back"
    /\ UNCHANGED <<geo, pix>>
    /\ OutsideProjection

NextProj ==
    \/ ToPixel
    \/ ToGeo

SpecProj == InitProj /\ [][NextProj]_vars

\* ------------------------------------------------------------------ claims

\* The render threads of this run.
Active == {w \in Threads : w < args.threads}

\* queue.join() has returned.
AfterDrain == opc \in {"join_threads", "returned", "exited"}

\* C1: queue.join() returns only after exactly M requests (M = the number of
\* requests put) were rendered or skipped and marked done and exactly N
\* sentinels (N = threads) were marked done, M + N markings in all; and a
\* render thread that has been joined has processed its sentinel.
C1_DrainCorrectness ==
    /\ AfterDrain =>
          /\ tileMarks = Len(pushed)
          /\ renders + skips = Len(pushed)
          /\ sentinelMarks = args.threads
          /\ tileMarks + sentinelMarks = Len(pushed) + args.threads
    /\ \A w \in Active : (AfterDrain /\ w < joined) => wpc[w] = "stopped"

C1_Witness ==
    /\ opc = "returned"
    /\ args.threads >= 2
    /\ Len(pushed) >= 4
    /\ joined = args.threads

\* C2: with fair scheduling, renders that return and no interrupt, every
\* render thread eventually reaches Stopped, the pending counter eventually
\* reaches zero, and render_tiles eventually returns with all threads
\* stopped and the queue empty.
C2_Termination ==
    <>(/\ opc = "returned"
       /\ \A w \in Active : wpc[w] = "stopped"
       /\ unfinished = 0
       /\ queue = << >>)

C2_Witness ==
    /\ opc = "returned"
    /\ args.threads >= 2
    /\ renders >= 4
    /\ unfinished = 0
    /\ \A w \in Active : wpc[w] = "stopped"

\* The requests among the items fetched so far.
PoppedRequests == {i \in DOMAIN pops : pops[i] # None}

\* The destination paths of the requests fetched, and of the requests put.
PoppedUris == {Uri(pops[i]) : i \in PoppedRequests}

PushedUris == {pushed[k] : k \in DOMAIN pushed}

\* C3: every request put is fetched at most once, so by at most one render
\* thread (no two fetches return the same request, and every fetched request
\* was put); and when render_tiles returns every request put has been
\* fetched exactly once and marked done.
C3_ExactlyOnce ==
    /\ Cardinality(PoppedUris) = Cardinality(PoppedRequests)
    /\ PoppedUris \subseteq PushedUris
    /\ opc = "returned" =>
          /\ PoppedUris = PushedUris
          /\ Cardinality(PoppedRequests) = Len(pushed)
          /\ tileMarks = Len(pushed)

C3_Witness ==
    /\ opc = "returned"
    /\ args.threads >= 2
    /\ Cardinality(PoppedRequests) >= 4
    /\ skips = 0

\* The enumeration of this run is complete (the zoom loop has ended).
Enumerated == opc \in {"sentinel", "join_threads", "returned", "exited"}

\* C4: every (z, x, y) put into the queue has 0 <= x < 2^z and
\* 0 <= y < 2^z, for every box, zoom range and tile size.
C4_TileIndexBounds ==
    /\ \A k \in DOMAIN pushed :
          /\ 0 <= pushed[k][2] /\ pushed[k][2] < 2 ^ pushed[k][1]
          /\ 0 <= pushed[k][3] /\ pushed[k][3] < 2 ^ pushed[k][1]
    /\ \A k \in DOMAIN queue :
          queue[k] # None =>
             /\ 0 <= queue[k][2] /\ queue[k][2] < 2 ^ queue[k][4]
             /\ 0 <= queue[k][3] /\ queue[k][3] < 2 ^ queue[k][4]

\* A run in which an x and a y beyond the grid were discarded and requests
\* were put.
C4_Witness ==
    /\ Enumerated
    /\ args.min <= args.max
    /\ LastIndex(bbox, args.max, args.size, 1) >= 2 ^ args.max
    /\ LastIndex(bbox, args.max, args.size, 2) >= 2 ^ args.max
    /\ Len(pushed) >= 4

\* The box is the whole Mercator extent at a zoom level: its corner pixels
\* are (0, 0) and (size * 2^z, size * 2^z).
WholeExtent(zoom) ==
    /\ px0(bbox, zoom, args.size) = <<0, 0>>
    /\ px1(bbox, zoom, args.size) = <<Ac(zoom, args.size), Ac(zoom, args.size)>>

\* C5: for a box that is the whole Mercator extent, the enumeration yields
\* exactly 2^z * 2^z requests at each zoom z of the range, every (x, y) of
\* [0, 2^z) x [0, 2^z) exactly once; and zoom range [0, 0] with tile size 256
\* yields exactly the request (0, 0, 0), with directories 0/ and 0/0/ made.
C5_WholeExtentCoverage ==
    /\ \A zoom \in args.min .. args.max :
          (Enumerated /\ WholeExtent(zoom)) =>
             /\ Cardinality({k \in DOMAIN pushed : pushed[k][1] = zoom})
                   = (2 ^ zoom) * (2 ^ zoom)
             /\ \A tx, ty \in 0 .. (2 ^ zoom - 1) :
                   Cardinality({k \in DOMAIN pushed :
                                   pushed[k] = tile_uri(zoom, tx, ty)}) = 1
    /\ (/\ Enumerated /\ WholeExtent(0)
        /\ args.min = 0 /\ args.max = 0 /\ args.size = 256) =>
          /\ pushed = <<tile_uri(0, 0, 0)>>
          /\ {<<"d", 0>>, <<"d", 0, 0>>} \subseteq dirs

C5_Witness ==
    /\ Enumerated
    /\ args.min = 0
    /\ args.max >= 2
    /\ \A zoom \in args.min .. args.max : WholeExtent(zoom)
    /\ Len(pushed) >= 21

\* C6: within one run each (z, x, y) is put at most once, so no two requests
\* of a run carry the same destination path.
C6_NoDuplicateRequests ==
    \A j, k \in DOMAIN pushed : j # k => pushed[j] # pushed[k]

C6_Witness ==
    /\ Enumerated
    /\ args.max > args.min
    /\ Len(pushed) >= 10
    /\ \E j, k \in DOMAIN pushed : pushed[j][2] # pushed[k][2] /\ pushed[j][3] = pushed[k][3]

\* A render thread is between its get and its task_done for a request (a
\* thread ended by a failed render never calls task_done): in loop(), or,
\* where get() and task_done() are followed statement by statement, past
\* the pop of get() and before the store of task_done().
InFlight(w) ==
    \/ wpc[w] \in {"check", "render", "log", "failed"}
    \/ /\ wpc[w] \in {"get_notify", "get_exit", "get_raise_lost", "get_lost",
                       "td_read", "td_notify", "td_store", "td_raise"}
       /\ witem[w] # None

\* C7: at no time are two render threads between get and task_done for
\* requests with the same destination path.
C7_NoSharedPathInFlight ==
    \A v, w \in Threads :
        (v # w /\ InFlight(v) /\ InFlight(w)) => Uri(witem[v]) # Uri(witem[w])

C7_Witness ==
    \E v, w \in Active :
        /\ v # w
        /\ wpc[v] = "render"
        /\ wpc[w] = "render"
        /\ witem[v][4] = witem[w][4]

\* C8: for every fetched request the renderer is invoked if and only if the
\* destination file does not exist at the time of the check; when it exists
\* no render happens and the file system is left unchanged.  A render
\* (a change of renders or a write of a file of this run) is only ever done
\* by a thread whose check found the file absent.
C8_RenderIffAbsent ==
    /\ [][\A w \in Threads :
            (wpc[w] = "check" /\ wpc'[w] # "check") =>
               /\ (wpc'[w] = "render") <=> ~isfile(Uri(witem[w]))
               /\ isfile(Uri(witem[w])) =>
                     /\ wpc'[w] = "log"
                     /\ exists'[w] = "exists"
                     /\ files' = files
                     /\ renders' = renders]_vars
    /\ [][(renders' # renders /\ run' = run) =>
             \E w \in Threads :
                /\ wpc[w] = "render"
                /\ exists[w] = ""
                /\ renders' = renders + 1
                /\ files' = save(Uri(witem[w]))]_vars
    /\ [][(files' # files /\ run' = run /\ opc # "main") => renders' # renders]_vars
    /\ [](\A w \in Threads : (wpc[w] = "log" /\ exists[w] = "exists") =>
             isfile(Uri(witem[w])))

\* A request was skipped because its file exists (the file an earlier run
\* rendered), while another thread is about to check its own request.
C8_Witness ==
    \E v, w \in Active :
        /\ wpc[v] = "log"
        /\ exists[v] = "exists"
        /\ <<Uri(witem[v]), 1>> \in files
        /\ wpc[w] = "check"
        /\ run = 2

\* C9: the program is run twice against the same tile directory (nothing
\* removes a file between the runs: no step but the program's own removes
\* one); the second run renders no tile, every request of it taking the
\* "exists" branch, and the files of the first run are left as they were.
C9_SecondRunRendersNothing ==
    run >= 2 =>
       /\ renders = 0
       /\ \A f \in files : f[2] < run
       /\ \A w \in Active : wpc[w] # "render"
       /\ AfterDrain => skips = Len(pushed)

\* What holds in place of it: a further call of render_tiles against the
\* tile directory, which __main__ has not emptied before it, renders no
\* tile.
FurtherCallRendersNothing ==
    (run >= 2 /\ entry = "call") =>
       /\ renders = 0
       /\ \A f \in files : f[2] < run
       /\ \A w \in Active : wpc[w] # "render"
       /\ AfterDrain => skips = Len(pushed)

\* C10: a KeyboardInterrupt during queue.put(t) aborts the run at once,
\* whatever part of the put was done: the main thread puts no further
\* request and no sentinel, never calls queue.join or joins a thread, and
\* undoes nothing of the work submitted (the queue only loses what the
\* render threads fetch, no file or directory is removed).  The program
\* ends, with exit status 1, only once every render thread has ended.
C10_InterruptAborts ==
    /\ [](interrupted =>
             /\ opc \in {"exit", "aborted"}
             /\ status \in {"running", "1"}
             /\ sent = 0
             /\ joined = 0
             /\ \A k \in DOMAIN queue : queue[k] # None
             /\ \A k \in DOMAIN pops : pops[k] # None)
    /\ [][(interrupted /\ run' = run) =>
             /\ interrupted'
             /\ opc' \in {opc, "aborted"}
             /\ pushed' = pushed
             /\ sent' = sent
             /\ joined' = joined
             /\ queue' = queue \/ queue' = Tail(queue)
             /\ unfinished' = unfinished \/ unfinished' = unfinished - 1
             /\ dirs' = dirs
             /\ files \subseteq files']_vars

C10_Witness ==
    /\ interrupted
    /\ opc = "exit"
    /\ Len(pushed) >= 2
    /\ queue # << >>
    /\ \E w \in Active : wpc[w] = "render"

\* Some render thread was ended by a failed render.
SomeFailed == \E w \in Threads : wpc[w] = "failed"

\* Thread v has been stopped short of the work left to it: it is in get()
\* with items left in the queue, or in task_done(), and the main thread
\* has left the mutex locked, so that it blocks for ever; or an exception
\* that no render raised has ended it.
Stalled(v) ==
    \/ /\ mutex_locked
       /\ ~Betrayed
       /\ \/ wpc[v] = "get" /\ queue # << >>
          \/ wpc[v] \in {"sentinel", "log"}
    \/ wpc[v] \in {"crashed", "get_failed", "get_lost"}

\* C11: a failed render ends only the render thread it happened in: its
\* request is never put back or handed to another thread, and no other
\* thread is stopped once a render has failed: the others go on fetching
\* and processing the requests and sentinels left.
C11_FailureIsLocal ==
    /\ \A w \in Threads :
          wpc[w] = "failed" =>
             /\ \A k \in DOMAIN queue : queue[k] # witem[w]
             /\ \A v \in Threads \ {w} : witem[v] # witem[w]
             /\ Cardinality({k \in DOMAIN pops : pops[k] = witem[w]}) = 1
    /\ SomeFailed => \A v \in Active : ~Stalled(v)

\* What holds in place of it: the step of a failed render changes nothing
\* but the position of the thread it happened in, that thread takes no
\* further step, and its request stays with it.
FailureStepIsLocal ==
    /\ [][\A w \in Threads :
            (wpc[w] # "failed" /\ wpc'[w] = "failed") =>
               /\ wpc[w] = "render"
               /\ \A v \in Threads \ {w} : wpc'[v] = wpc[v]
               /\ witem' = witem
               /\ queue' = queue
               /\ unfinished' = unfinished
               /\ waiters' = waiters
               /\ mutex_locked' = mutex_locked
               /\ renders' = renders
               /\ files' = files]_vars
    /\ [][\A w \in Threads :
            (wpc[w] = "failed" /\ run' = run) =>
               /\ wpc'[w] = "failed"
               /\ witem'[w] = witem[w]]_vars

\* C12: when something is at the output path before the program runs, the
\* program does not end with status 0, disk_to_mbtiles is never called,
\* metadata.json is not written, and what is at the path stays as it is.
C12_ExistingArchiveExits ==
    (mbtiles_path # "" /\ archive \in {"old", "dir"}) =>
       /\ packaged = 0
       /\ ~metadata
       /\ status # "0"

\* What holds in place of it: a regular file at the output path is never
\* written to, and the program that finds it there ends with status 1
\* without a call of disk_to_mbtiles.
ExistingFileExits ==
    (mbtiles_path # "" /\ archive = "old") =>
       /\ packaged = 0
       /\ ~metadata
       /\ status \in {"running", "1", "-2"}
       /\ opc = "exited" => status = "1"

\* C13: the enumeration never under-covers.  Once it is complete, for every
\* zoom z of the range whose corner pixels satisfy px0 <= px1 in both
\* components, every tile (x, y) with trunc(px0.x / size) <= x <=
\* trunc(px1.x / size), trunc(px0.y / size) <= y <= trunc(px1.y / size) and
\* 0 <= x, y < 2^z has been put.
C13_NoUnderCoverage ==
    Enumerated =>
       \A zoom \in args.min .. args.max :
          LET p0 == px0(bbox, zoom, args.size)
              p1 == px1(bbox, zoom, args.size)
          IN  (p0[1] <= p1[1] /\ p0[2] <= p1[2]) =>
                 \A tx \in IntDiv(p0[1], args.size) .. IntDiv(p1[1], args.size),
                    ty \in IntDiv(p0[2], args.size) .. IntDiv(p1[2], args.size) :
                    (/\ 0 <= tx /\ tx < 2 ^ zoom
                     /\ 0 <= ty /\ ty < 2 ^ zoom) =>
                       tile_uri(zoom, tx, ty) \in PushedUris

\* A complete enumeration of a box that is not the whole extent, over
\* several zoom levels, with a last column and row beyond the first.
C13_Witness ==
    /\ Enumerated
    /\ args.max > args.min
    /\ ~WholeExtent(args.max)
    /\ LET p0 == px0(bbox, args.max, args.size)
           p1 == px1(bbox, args.max, args.size)
       IN  /\ IntDiv(p0[1], args.size) < IntDiv(p1[1], args.size)
           /\ IntDiv(p0[2], args.size) < IntDiv(p1[2], args.size)
           /\ IntDiv(p0[1], args.size) > 0
           /\ IntDiv(p0[2], args.size) > 0
    /\ Len(pushed) >= 4

Abs(n) == IF n < 0 THEN -n ELSE n

\* The longitude that one pixel spans at a world size of c pixels, which is
\* also the most latitude one pixel spans: 360 / c degrees (1 / Bc[zoom]),
\* in millidegrees, rounded down.
PixelOfDegrees(c) == 360000 \div c

\* C14: for every point within the limits of longitude and of the Mercator
\* latitude and every zoom level of the projection's tables,
\* from_pixel_to_ll(from_ll_to_pixel(p, z), z) differs from p by at most
\* one pixel's worth of degrees at that zoom, in longitude and in latitude.
C14_RoundTripWithinPixel ==
    opc = "taken_back" =>
       /\ Abs(geo_back[1] - geo[1]) <= PixelOfDegrees(Ac(z, args.size))
       /\ Abs(geo_back[2] - geo[2]) <= PixelOfDegrees(Ac(z, args.size))

\* A point was projected at the largest zoom level and the largest tile
\* size and taken back, and neither its longitude nor its latitude came
\* back exactly: it lies between the centres of pixels both ways.
C14_Witness ==
    /\ opc = "taken_back"
    /\ z = MaxProjZoom
    /\ args.size = 1024
    /\ geo_back[1] # geo[1]
    /\ geo_back[2] # geo[2]
    /\ geo[2] > 60000

\* Thread w holds an item it has fetched and not marked done.
Holding(w) ==
    wpc[w] \in {"sentinel", "check", "render", "log", "failed", "get_notify",
                "get_exit", "get_raise_lost", "get_lost", "td_read",
                "td_notify", "td_store", "td_raise"}

\* C15: every item a render thread fetches and gets through (a request it
\* renders, a request it skips, a sentinel) is marked done exactly once, by
\* that thread, before it fetches again or stops: no task_done of a render
\* thread fails, the items fetched are the items marked done and the items
\* the threads hold, one each, and a request marked done was rendered or
\* skipped.
C15_MarkedOnceByOwner ==
    /\ \A w \in Threads : wpc[w] # "crashed"
    /\ tileMarks + Cardinality({w \in Threads : InFlight(w)})
          = Cardinality(PoppedRequests)
    /\ sentinelMarks + Cardinality({w \in Threads : wpc[w] = "sentinel"})
          = Len(pops) - Cardinality(PoppedRequests)
    /\ tileMarks
          = renders + skips - Cardinality({w \in Threads : wpc[w] = "log"})

\* C16: in every state unfinished_tasks is the number of items put
\* (requests and sentinels) minus the number of task_done calls, is never
\* negative, and is the number of items in the queue plus the number of
\* items fetched and not yet marked done; task_done has never been called
\* more often than items were put.
C16_PendingCounter ==
    /\ unfinished = (Len(pushed) + sent) - (tileMarks + sentinelMarks)
    /\ unfinished >= 0
    /\ unfinished = Len(queue) + Cardinality({w \in Threads : Holding(w)})
    /\ tileMarks + sentinelMarks <= Len(pushed) + sent

\* The sentinels among the items fetched so far.
PoppedSentinels == {i \in DOMAIN pops : pops[i] = None}

\* Thread w has fetched a sentinel.
GotSentinel(w) ==
    \/ wpc[w] \in {"sentinel", "stopped"}
    \/ /\ wpc[w] \in {"crashed", "get_notify", "get_exit", "get_raise_lost",
                       "get_lost", "td_read", "td_notify", "td_store",
                       "td_raise", "td_exit"}
       /\ witem[w] = None

\* C17: the sentinels are put only after the last request and the queue is
\* first-in first-out, so in the queue no request follows a sentinel, and
\* once a thread has fetched a sentinel (and so when it stops) no request is
\* left in the queue.  No thread fetches a second sentinel: the sentinels
\* fetched are as many as the threads that fetched one; and when queue.join
\* has returned every thread has fetched exactly one.
C17_SentinelsLast ==
    /\ sent > 0 => (z > args.max /\ ~interrupted)
    /\ \A k \in 1 .. (Len(queue) - 1) : queue[k] = None => queue[k + 1] = None
    /\ (\E w \in Threads : GotSentinel(w)) =>
          \A k \in DOMAIN queue : queue[k] = None
    /\ Cardinality(PoppedSentinels)
          = Cardinality({w \in Threads : GotSentinel(w)})
    /\ Cardinality(PoppedSentinels) <= sent
    /\ AfterDrain =>
          /\ \A w \in Active : GotSentinel(w)
          /\ Cardinality(PoppedSentinels) = args.threads

\* A thread has fetched its sentinel while another still renders a request
\* and the other sentinels wait in the queue.
C17_Witness ==
    /\ \E v, w \in Active : wpc[v] = "sentinel" /\ wpc[w] = "render"
    /\ queue # << >>
    /\ Len(pushed) >= 3
    /\ sent = args.threads

\* The requests that are in the queue or held by a render thread.
LiveRequests ==
    {queue[k] : k \in {j \in DOMAIN queue : queue[j] # None}}
    \cup {witem[w] : w \in {v \in Threads : InFlight(v)}}

\* C18: whenever a request for (z, x, y) is in the queue or held by a render
\* thread, the directories tile_dir, tile_dir/z and tile_dir/z/x exist: they
\* are made before the request is put.  The render threads are started
\* before tile_dir is made, but while tile_dir is missing no request is in
\* the queue or held.
C18_DirectoriesBeforeRequests ==
    /\ \A r \in LiveRequests :
          {tile_dir, <<"d", r[4]>>, <<"d", r[4], r[2]>>} \subseteq dirs
    /\ tile_dir \notin dirs => LiveRequests = {}

\* Requests of two zoom levels are in the queue or held, in a run that
\* started its threads before it made the directories.
C18_Witness ==
    /\ run = 1
    /\ \E w \in Active : wpc[w] = "render" /\ witem[w][4] = 1
    /\ \E k \in DOMAIN queue : queue[k] # None /\ queue[k][4] = 2 /\ queue[k][2] = 1
    /\ <<"d", 2, 1>> \in dirs

\* C19: once a render call has raised in a render thread, that thread has
\* ended holding its request, which is never marked done, and it fetches
\* nothing more (so no sentinel); unfinished_tasks therefore stays above
\* zero, queue.join() never returns, and the main thread never joins a
\* render thread or returns from render_tiles (the program does not end
\* with status 0; only an interrupt ends it).
C19_FailureBlocksJoin ==
    SomeFailed =>
       /\ unfinished >= 1
       /\ unfinished >= Cardinality({w \in Threads : wpc[w] = "failed"})
       /\ opc \notin {"join_threads", "returned", "exited"}
       /\ joined = 0
       /\ status # "0"
       /\ tileMarks + Cardinality({w \in Threads : wpc[w] = "failed"})
             <= Cardinality(PoppedRequests)
       /\ \A w \in Threads : wpc[w] = "failed" => witem[w] # None

\* Thread w is blocked: it waits in get() for a notify, or it is in get()
\* or task_done() while the mutex of the queue is left locked.
Blocked(w) ==
    \/ wpc[w] = "waiting"
    \/ mutex_locked /\ wpc[w] \in {"get", "sentinel", "log"}

\* C20: after a KeyboardInterrupt during the enumeration no sentinel is ever
\* put, so no render thread fetches one or stops; every render thread gets
\* through the requests it fetches (no thread ends unless its render
\* raises, none is blocked in task_done) and then blocks in get() on the
\* empty queue: the threads are not all blocked while a request is in the
\* queue.
C20_InterruptLeavesThreadsWaiting ==
    interrupted =>
       /\ sent = 0
       /\ opc \in {"exit", "aborted"}
       /\ \A k \in DOMAIN queue : queue[k] # None
       /\ \A w \in Threads : ~GotSentinel(w)
       /\ \A w \in Threads : wpc[w] \notin {"stopped", "crashed"}
       /\ \A w \in Threads : ~(mutex_locked /\ wpc[w] = "log")
       /\ (\A w \in Active : Blocked(w)) => queue = << >>

====
